---- MODULE Spec2Model ----
(***************************************************************************)
(* A model of the webglm vector and matrix kernel (src/src/vec.rs,         *)
(* src/src/mat.rs).                                                        *)
(*                                                                         *)
(* Every operation of the library is a pure function of its operands, so   *)
(* the state is one call of the library: the operands (u, v for vectors,   *)
(* a, b, c for matrices), the per-call argument (s: a scalar or a column   *)
(* index, t: a translation vector), the operation applied last (op) and    *)
(* the value it returned (res).                                            *)
(*                                                                         *)
(* f32 values are modelled by integers: on small integers every f32        *)
(* addition, subtraction and multiplication is exact, so the model         *)
(* computes what the code computes there.  NaN, the infinities and         *)
(* rounding are outside the model.  f32::sqrt is modelled exactly: the     *)
(* non-negative real whose square is n is the value [sq |-> n].            *)
(***************************************************************************)
EXTENDS Integers, Sequences, FiniteSets

VARIABLES u, v, a, b, c, s, t, op, res

vars == <<u, v, a, b, c, s, t, op, res>>

(***************************************************************************)
(* Bounds of the operands.                                                 *)
(***************************************************************************)
MaxComp2 == 4
MaxComp3 == 2
MaxComp4 == 1
MaxScalar == 2
MaxMatSeed == 4
MaxTrans == 3
MaxIndex == 5

(***************************************************************************)
(* The wasm32 SIMD intrinsics: a register is four lanes, numbered 0..3.    *)
(***************************************************************************)
f32x4(l0, l1, l2, l3) == <<l0, l1, l2, l3>>

f32x4_add(p, q) == [i \in 1..4 |-> p[i] + q[i]]

f32x4_sub(p, q) == [i \in 1..4 |-> p[i] - q[i]]

f32x4_mul(p, q) == [i \in 1..4 |-> p[i] * q[i]]

f32x4_extract_lane(n, p) == p[n + 1]

sqrt(n) == [sq |-> n]

(***************************************************************************)
(* Vec2                                                                    *)
(***************************************************************************)
Vec2_new(x, y) == [x |-> x, y |-> y]

Vec2_zero == [x |-> 0, y |-> 0]

Vec2_sub_f32(self, rhs0) ==
    LET s0  == f32x4(self.x, self.y, 0, 0)
        rhs == f32x4(rhs0, rhs0, 0, 0)
        r   == f32x4_sub(s0, rhs)
    IN  [x |-> f32x4_extract_lane(0, r), y |-> f32x4_extract_lane(1, r)]

Vec2_add_f32(self, rhs0) ==
    LET s0  == f32x4(self.x, self.y, 0, 0)
        rhs == f32x4(rhs0, rhs0, 0, 0)
        r   == f32x4_add(s0, rhs)
    IN  [x |-> f32x4_extract_lane(0, r), y |-> f32x4_extract_lane(1, r)]

Vec2_mul_f32(self, rhs0) ==
    LET s0  == f32x4(self.x, self.y, 0, 0)
        rhs == f32x4(rhs0, rhs0, 0, 0)
        r   == f32x4_mul(s0, rhs)
    IN  [x |-> f32x4_extract_lane(0, r), y |-> f32x4_extract_lane(1, r)]

Vec2_dot_mul(self, rhs0) ==
    LET s0  == f32x4(self.x, self.y, 0, 0)
        rhs == f32x4(rhs0.x, rhs0.y, 0, 0)
        r   == f32x4_mul(s0, rhs)
    IN  f32x4_extract_lane(0, r) + f32x4_extract_lane(1, r)

Vec2_add(self, rhs0) ==
    LET s0  == f32x4(self.x, self.y, 0, 0)
        rhs == f32x4(rhs0.x, rhs0.y, 0, 0)
        r   == f32x4_add(s0, rhs)
    IN  [x |-> f32x4_extract_lane(0, r), y |-> f32x4_extract_lane(1, r)]

Vec2_sub(self, rhs0) ==
    LET s0  == f32x4(self.x, self.y, 0, 0)
        rhs == f32x4(rhs0.x, rhs0.y, 0, 0)
        r   == f32x4_sub(s0, rhs)
    IN  [x |-> f32x4_extract_lane(0, r), y |-> f32x4_extract_lane(1, r)]

Vec2_mag(self) == sqrt(Vec2_dot_mul(self, self))

(***************************************************************************)
(* Vec3                                                                    *)
(***************************************************************************)
Vec3_new(x, y, z) == [x |-> x, y |-> y, z |-> z]

Vec3_sub_f32(self, rhs0) ==
    LET s0  == f32x4(self.x, self.y, self.z, 0)
        rhs == f32x4(rhs0, rhs0, rhs0, 0)
        r   == f32x4_sub(s0, rhs)
    IN  [x |-> f32x4_extract_lane(0, r), y |-> f32x4_extract_lane(1, r),
         z |-> f32x4_extract_lane(2, r)]

Vec3_add_f32(self, rhs0) ==
    LET s0  == f32x4(self.x, self.y, self.z, 0)
        rhs == f32x4(rhs0, rhs0, rhs0, 0)
        r   == f32x4_add(s0, rhs)
    IN  [x |-> f32x4_extract_lane(0, r), y |-> f32x4_extract_lane(1, r),
         z |-> f32x4_extract_lane(2, r)]

Vec3_mul_f32(self, rhs0) ==
    LET s0  == f32x4(self.x, self.y, self.z, 0)
        rhs == f32x4(rhs0, rhs0, rhs0, 0)
        r   == f32x4_mul(s0, rhs)
    IN  [x |-> f32x4_extract_lane(0, r), y |-> f32x4_extract_lane(1, r),
         z |-> f32x4_extract_lane(2, r)]

Vec3_dot_mul(self, rhs0) ==
    LET s0  == f32x4(self.x, self.y, self.z, 0)
        rhs == f32x4(rhs0.x, rhs0.y, rhs0.z, 0)
        r   == f32x4_mul(s0, rhs)
    IN  f32x4_extract_lane(0, r) + f32x4_extract_lane(1, r)
          + f32x4_extract_lane(2, r)

Vec3_add(self, rhs0) ==
    LET s0  == f32x4(self.x, self.y, self.z, 0)
        rhs == f32x4(rhs0.x, rhs0.y, rhs0.z, 0)
        r   == f32x4_add(s0, rhs)
    IN  [x |-> f32x4_extract_lane(0, r), y |-> f32x4_extract_lane(1, r),
         z |-> f32x4_extract_lane(2, r)]

Vec3_sub(self, rhs0) ==
    LET s0  == f32x4(self.x, self.y, self.z, 0)
        rhs == f32x4(rhs0.x, rhs0.y, rhs0.z, 0)
        r   == f32x4_sub(s0, rhs)
    IN  [x |-> f32x4_extract_lane(0, r), y |-> f32x4_extract_lane(1, r),
         z |-> f32x4_extract_lane(2, r)]

Vec3_mag(self) == sqrt(Vec3_dot_mul(self, self))

(***************************************************************************)
(* Vec4                                                                    *)
(***************************************************************************)
Vec4_new(x, y, z, w) == [x |-> x, y |-> y, z |-> z, w |-> w]

Vec4_zero == [x |-> 0, y |-> 0, z |-> 0, w |-> 0]

Vec4_sub_f32(self, rhs0) ==
    LET s0  == f32x4(self.x, self.y, self.z, self.w)
        rhs == f32x4(rhs0, rhs0, rhs0, rhs0)
        r   == f32x4_sub(s0, rhs)
    IN  [x |-> f32x4_extract_lane(0, r), y |-> f32x4_extract_lane(1, r),
         z |-> f32x4_extract_lane(2, r), w |-> f32x4_extract_lane(3, r)]

Vec4_add_f32(self, rhs0) ==
    LET s0  == f32x4(self.x, self.y, self.z, self.w)
        rhs == f32x4(rhs0, rhs0, rhs0, rhs0)
        r   == f32x4_add(s0, rhs)
    IN  [x |-> f32x4_extract_lane(0, r), y |-> f32x4_extract_lane(1, r),
         z |-> f32x4_extract_lane(2, r), w |-> f32x4_extract_lane(3, r)]

Vec4_mul_f32(self, rhs0) ==
    LET s0  == f32x4(self.x, self.y, self.z, self.w)
        rhs == f32x4(rhs0, rhs0, rhs0, rhs0)
        r   == f32x4_mul(s0, rhs)
    IN  [x |-> f32x4_extract_lane(0, r), y |-> f32x4_extract_lane(1, r),
         z |-> f32x4_extract_lane(2, r), w |-> f32x4_extract_lane(3, r)]

Vec4_dot_mul(self, rhs0) ==
    LET s0  == f32x4(self.x, self.y, self.z, self.w)
        rhs == f32x4(rhs0.x, rhs0.y, rhs0.z, rhs0.w)
        r   == f32x4_mul(s0, rhs)
    IN  f32x4_extract_lane(0, r) + f32x4_extract_lane(1, r)
          + f32x4_extract_lane(2, r) + f32x4_extract_lane(3, r)

\* The right-hand register takes its fourth lane from self.w (vec.rs:401).
Vec4_add(self, rhs0) ==
    LET s0  == f32x4(self.x, self.y, self.z, self.w)
        rhs == f32x4(rhs0.x, rhs0.y, rhs0.z, self.w)
        r   == f32x4_add(s0, rhs)
    IN  [x |-> f32x4_extract_lane(0, r), y |-> f32x4_extract_lane(1, r),
         z |-> f32x4_extract_lane(2, r), w |-> f32x4_extract_lane(3, r)]

\* The right-hand register takes its fourth lane from self.w (vec.rs:418).
Vec4_sub(self, rhs0) ==
    LET s0  == f32x4(self.x, self.y, self.z, self.w)
        rhs == f32x4(rhs0.x, rhs0.y, rhs0.z, self.w)
        r   == f32x4_sub(s0, rhs)
    IN  [x |-> f32x4_extract_lane(0, r), y |-> f32x4_extract_lane(1, r),
         z |-> f32x4_extract_lane(2, r), w |-> f32x4_extract_lane(3, r)]

Vec4_mag(self) == sqrt(Vec4_dot_mul(self, self))

(***************************************************************************)
(* Trait dispatch: the arity of a vector value selects the impl.           *)
(***************************************************************************)
Arity(p) == Cardinality(DOMAIN p)

Add(p, q) ==
    CASE Arity(p) = 2 -> Vec2_add(p, q)
      [] Arity(p) = 3 -> Vec3_add(p, q)
      [] Arity(p) = 4 -> Vec4_add(p, q)

Sub(p, q) ==
    CASE Arity(p) = 2 -> Vec2_sub(p, q)
      [] Arity(p) = 3 -> Vec3_sub(p, q)
      [] Arity(p) = 4 -> Vec4_sub(p, q)

AddScalar(p, k) ==
    CASE Arity(p) = 2 -> Vec2_add_f32(p, k)
      [] Arity(p) = 3 -> Vec3_add_f32(p, k)
      [] Arity(p) = 4 -> Vec4_add_f32(p, k)

SubScalar(p, k) ==
    CASE Arity(p) = 2 -> Vec2_sub_f32(p, k)
      [] Arity(p) = 3 -> Vec3_sub_f32(p, k)
      [] Arity(p) = 4 -> Vec4_sub_f32(p, k)

MulScalar(p, k) ==
    CASE Arity(p) = 2 -> Vec2_mul_f32(p, k)
      [] Arity(p) = 3 -> Vec3_mul_f32(p, k)
      [] Arity(p) = 4 -> Vec4_mul_f32(p, k)

Mag(p) ==
    CASE Arity(p) = 2 -> Vec2_mag(p)
      [] Arity(p) = 3 -> Vec3_mag(p)
      [] Arity(p) = 4 -> Vec4_mag(p)

distance(v1, v2) == Mag(Sub(v2, v1))

(***************************************************************************)
(* Mat4: four columns c0..c3, each a Vec4.                                 *)
(***************************************************************************)
Mat4(c0, c1, c2, c3) == [c0 |-> c0, c1 |-> c1, c2 |-> c2, c3 |-> c3]

Panic == [panic |-> "Invalid column index into Mat4"]

\* Mat4_transpose with the last component of c3 read from the z lane.
Mat4_transpose_zlane(self) ==
    [c0 |-> Vec4_new(self.c0.x, self.c1.x, self.c2.x, self.c3.x),
     c1 |-> Vec4_new(self.c0.y, self.c1.y, self.c2.y, self.c3.y),
     c2 |-> Vec4_new(self.c0.z, self.c1.z, self.c2.z, self.c3.z),
     c3 |-> Vec4_new(self.c0.w, self.c1.w, self.c2.w, self.c3.z)]

Mat4_transpose(self) ==
    [c0 |-> Vec4_new(self.c0.x, self.c1.x, self.c2.x, self.c3.x),
     c1 |-> Vec4_new(self.c0.y, self.c1.y, self.c2.y, self.c3.y),
     c2 |-> Vec4_new(self.c0.z, self.c1.z, self.c2.z, self.c3.z),
     c3 |-> Vec4_new(self.c0.w, self.c1.w, self.c2.w, self.c3.w)]

\* Mat4_index that answers an out-of-range index with the last column.
Mat4_index_clamped(self, index) ==
    CASE index = 0 -> self.c0
      [] index = 1 -> self.c1
      [] index = 2 -> self.c2
      [] OTHER     -> self.c3

Mat4_index(self, index) ==
    CASE index = 0 -> self.c0
      [] index = 1 -> self.c1
      [] index = 2 -> self.c2
      [] index = 3 -> self.c3
      [] OTHER     -> Panic

\* Mat4_mul without the transposition of the right-hand operand.
Mat4_mul_untransposed(self, rhs0) ==
    LET rhs == rhs0
        dots(i) == [j \in 0..3 |->
                      Vec4_dot_mul(Mat4_index(self, i), Mat4_index(rhs, j))]
        cols == [i \in 0..3 |->
                   Vec4_new(dots(i)[0], dots(i)[1], dots(i)[2], dots(i)[3])]
    IN  [c0 |-> cols[0], c1 |-> cols[1], c2 |-> cols[2], c3 |-> cols[3]]

Mat4_mul(self, rhs0) ==
    LET rhs == Mat4_transpose(rhs0)
        dots(i) == [j \in 0..3 |->
                      Vec4_dot_mul(Mat4_index(self, i), Mat4_index(rhs, j))]
        cols == [i \in 0..3 |->
                   Vec4_new(dots(i)[0], dots(i)[1], dots(i)[2], dots(i)[3])]
    IN  [c0 |-> cols[0], c1 |-> cols[1], c2 |-> cols[2], c3 |-> cols[3]]

Mat4_add(self, rhs) ==
    [c0 |-> Vec4_add(self.c0, rhs.c0),
     c1 |-> Vec4_add(self.c1, rhs.c1),
     c2 |-> Vec4_add(self.c2, rhs.c2),
     c3 |-> Vec4_add(self.c3, rhs.c3)]

\* Mat4_one with the third column repeated as the fourth.
Mat4_one_repeated ==
    [c0 |-> Vec4_new(1, 0, 0, 0),
     c1 |-> Vec4_new(0, 1, 0, 0),
     c2 |-> Vec4_new(0, 0, 1, 0),
     c3 |-> Vec4_new(0, 0, 1, 0)]

Mat4_one ==
    [c0 |-> Vec4_new(1, 0, 0, 0),
     c1 |-> Vec4_new(0, 1, 0, 0),
     c2 |-> Vec4_new(0, 0, 1, 0),
     c3 |-> Vec4_new(0, 0, 0, 1)]

\* translate that keeps the columns of mat and adds vec to the fourth one.
translate_columns(mat, vec) ==
    [c0 |-> mat.c0,
     c1 |-> mat.c1,
     c2 |-> mat.c2,
     c3 |-> Vec4_new(mat.c3.x + vec.x, mat.c3.y + vec.y, mat.c3.z + vec.z,
                     mat.c3.w)]

translate(mat, vec) ==
    [c0 |-> Vec4_new(mat.c0.x, mat.c1.x, mat.c2.x, mat.c3.x + vec.x),
     c1 |-> Vec4_new(mat.c0.y, mat.c1.y, mat.c2.y, mat.c3.y + vec.y),
     c2 |-> Vec4_new(mat.c0.z, mat.c1.z, mat.c2.z, mat.c3.z + vec.z),
     c3 |-> Vec4_new(mat.c0.w, mat.c1.w, mat.c2.w, mat.c3.w)]

(***************************************************************************)
(* The operands the calls are made on.                                     *)
(***************************************************************************)
Vec2Inputs == {Vec2_new(x, y) : x \in 0..MaxComp2, y \in 0..MaxComp2}

Vec3Inputs == {Vec3_new(x, y, z) : x \in 0..MaxComp3, y \in 0..MaxComp3,
                                   z \in 0..MaxComp3}

Vec4Inputs == {Vec4_new(x, y, z, w) : x \in 0..MaxComp4, y \in 0..MaxComp4,
                                      z \in 0..MaxComp4, w \in 0..MaxComp4}

Scalars == (-1)..MaxScalar

TransInputs == {Vec3_new(x, y, z) : x \in 0..MaxTrans, y \in 0..MaxTrans,
                                    z \in 0..MaxTrans}

\* A dense matrix for each seed k; entry e of column j is GenEntry(k, j, e).
GenEntry(k, j, e) ==
    (((k + 1) * (4 * j + e + 1) + j * e * (k + 2)) % 7) - 3

GenCol(k, j) ==
    Vec4_new(GenEntry(k, j, 0), GenEntry(k, j, 1), GenEntry(k, j, 2),
             GenEntry(k, j, 3))

GenMat(k) == Mat4(GenCol(k, 0), GenCol(k, 1), GenCol(k, 2), GenCol(k, 3))

MatInputs == {Mat4_one} \cup {GenMat(k) : k \in 0..MaxMatSeed}

NoResult == <<>>

NoTrans == Vec3_new(0, 0, 0)

(***************************************************************************)
(* Vector calls.                                                           *)
(***************************************************************************)
InitVec ==
    /\ \/ u \in Vec2Inputs /\ v \in Vec2Inputs
       \/ u \in Vec3Inputs /\ v \in Vec3Inputs
       \/ u \in Vec4Inputs /\ v \in Vec4Inputs
    /\ a = Mat4_one /\ b = Mat4_one /\ c = Mat4_one
    /\ s = 0 /\ t = NoTrans
    /\ op = "init" /\ res = NoResult

CallAdd ==
    /\ op' = "add" /\ res' = Add(u, v)
    /\ s' = 0
    /\ UNCHANGED <<u, v, a, b, c, t>>

CallSub ==
    /\ op' = "sub" /\ res' = Sub(u, v)
    /\ s' = 0
    /\ UNCHANGED <<u, v, a, b, c, t>>

CallAddScalar ==
    \E k \in Scalars :
        /\ op' = "add_scalar" /\ s' = k /\ res' = AddScalar(u, k)
        /\ UNCHANGED <<u, v, a, b, c, t>>

CallSubScalar ==
    \E k \in Scalars :
        /\ op' = "sub_scalar" /\ s' = k /\ res' = SubScalar(u, k)
        /\ UNCHANGED <<u, v, a, b, c, t>>

CallMulScalar ==
    \E k \in Scalars :
        /\ op' = "mul_scalar" /\ s' = k /\ res' = MulScalar(u, k)
        /\ UNCHANGED <<u, v, a, b, c, t>>

CallDistance ==
    /\ op' = "distance" /\ res' = distance(u, v)
    /\ s' = 0
    /\ UNCHANGED <<u, v, a, b, c, t>>

NextVec ==
    \/ CallAdd
    \/ CallSub
    \/ CallAddScalar
    \/ CallSubScalar
    \/ CallMulScalar
    \/ CallDistance

SpecVec == InitVec /\ [][NextVec]_vars

(***************************************************************************)
(* Matrix calls.                                                           *)
(***************************************************************************)
InitMat ==
    /\ a \in MatInputs /\ b \in MatInputs /\ c \in MatInputs
    /\ u = Vec2_zero /\ v = Vec2_zero
    /\ s = 0 /\ t = NoTrans
    /\ op = "init" /\ res = NoResult

CallTranspose ==
    /\ op' = "transpose" /\ res' = Mat4_transpose(a)
    /\ s' = 0 /\ t' = NoTrans
    /\ UNCHANGED <<u, v, a, b, c>>

CallIndex ==
    \E i \in 0..MaxIndex :
        /\ op' = "index" /\ s' = i /\ res' = Mat4_index(a, i)
        /\ t' = NoTrans
        /\ UNCHANGED <<u, v, a, b, c>>

CallMul ==
    /\ op' = "mul" /\ res' = Mat4_mul(a, b)
    /\ s' = 0 /\ t' = NoTrans
    /\ UNCHANGED <<u, v, a, b, c>>

CallMulOneRight ==
    /\ op' = "mul_one_right" /\ res' = Mat4_mul(a, Mat4_one)
    /\ s' = 0 /\ t' = NoTrans
    /\ UNCHANGED <<u, v, a, b, c>>

CallMulOneLeft ==
    /\ op' = "mul_one_left" /\ res' = Mat4_mul(Mat4_one, a)
    /\ s' = 0 /\ t' = NoTrans
    /\ UNCHANGED <<u, v, a, b, c>>

CallMulLeftFirst ==
    /\ op' = "mul_left_first" /\ res' = Mat4_mul(Mat4_mul(a, b), c)
    /\ s' = 0 /\ t' = NoTrans
    /\ UNCHANGED <<u, v, a, b, c>>

CallMatAdd ==
    /\ op' = "mat_add" /\ res' = Mat4_add(a, b)
    /\ s' = 0 /\ t' = NoTrans
    /\ UNCHANGED <<u, v, a, b, c>>

CallTranslate ==
    \E vec \in TransInputs :
        /\ op' = "translate" /\ t' = vec /\ res' = translate(a, vec)
        /\ s' = 0
        /\ UNCHANGED <<u, v, a, b, c>>

NextMat ==
    \/ CallTranspose
    \/ CallIndex
    \/ CallMul
    \/ CallMulOneRight
    \/ CallMulOneLeft
    \/ CallMulLeftFirst
    \/ CallMatAdd
    \/ CallTranslate

SpecMat == InitMat /\ [][NextMat]_vars

(***************************************************************************)
(* Vocabulary of the properties: component r of a vector, column j of a    *)
(* matrix, the entry in row r of column j, and the product of a matrix     *)
(* with a column vector, result[r] = sum over k of Entry(m, r, k) * p[k].  *)
(***************************************************************************)
Comp(r, p) ==
    CASE r = 0 -> p.x
      [] r = 1 -> p.y
      [] r = 2 -> p.z
      [] r = 3 -> p.w

Col(m, j) ==
    CASE j = 0 -> m.c0
      [] j = 1 -> m.c1
      [] j = 2 -> m.c2
      [] j = 3 -> m.c3

Entry(m, r, j) == Comp(r, Col(m, j))

RowTimes(m, r, p) ==
    Entry(m, r, 0) * Comp(0, p) + Entry(m, r, 1) * Comp(1, p)
      + Entry(m, r, 2) * Comp(2, p) + Entry(m, r, 3) * Comp(3, p)

ApplyToPoint(m, p) ==
    [x |-> RowTimes(m, 0, p), y |-> RowTimes(m, 1, p),
     z |-> RowTimes(m, 2, p), w |-> RowTimes(m, 3, p)]

SquaredDifference(p, q) ==
    LET d(f) == IF f \in DOMAIN p THEN (q[f] - p[f]) * (q[f] - p[f]) ELSE 0
    IN  d("x") + d("y") + d("z") + d("w")

IsVecCall == op \in {"add", "sub", "add_scalar", "sub_scalar", "mul_scalar"}

(***************************************************************************)
(* C1: A * B is the standard matrix product under the column-major,        *)
(* column-vector convention: the entry in row r of column j of the result  *)
(* is the sum over k of (row r of column k of A) * (row k of column j of   *)
(* B).                                                                     *)
(***************************************************************************)
C1_MulIsStandardProduct ==
    op = "mul" =>
        \A r \in 0..3, j \in 0..3 :
            Entry(res, r, j) =
                Entry(a, r, 0) * Entry(b, 0, j) + Entry(a, r, 1) * Entry(b, 1, j)
                  + Entry(a, r, 2) * Entry(b, 2, j) + Entry(a, r, 3) * Entry(b, 3, j)

(***************************************************************************)
(* C2: for Vec2, Vec3 and Vec4, a + b, a - b, a + s, a - s and a * s       *)
(* return a vector of the same type each of whose components is the        *)
(* operation applied to the corresponding components of the operands.      *)
(***************************************************************************)
C2_Componentwise ==
    /\ IsVecCall => DOMAIN res = DOMAIN u
    /\ op = "add" => \A f \in DOMAIN u : res[f] = u[f] + v[f]
    /\ op = "sub" => \A f \in DOMAIN u : res[f] = u[f] - v[f]
    /\ op = "add_scalar" => \A f \in DOMAIN u : res[f] = u[f] + s
    /\ op = "sub_scalar" => \A f \in DOMAIN u : res[f] = u[f] - s
    /\ op = "mul_scalar" => \A f \in DOMAIN u : res[f] = u[f] * s

(***************************************************************************)
(* C3: every entry of A + B is the sum of the corresponding entries of A   *)
(* and B.                                                                  *)
(***************************************************************************)
C3_MatAddEntrywise ==
    op = "mat_add" =>
        \A r \in 0..3, j \in 0..3 :
            Entry(res, r, j) = Entry(a, r, j) + Entry(b, r, j)

(***************************************************************************)
(* C4: with I the matrix of One::one(), M * I = M and I * M = M.           *)
(***************************************************************************)
C4_IdentityLaw ==
    /\ op = "mul_one_right" => res = a
    /\ op = "mul_one_left" => res = a

C4_Witness ==
    /\ op = "mul_one_left"
    /\ a # Mat4_one
    /\ a # Mat4_transpose(a)
    /\ res = a

(***************************************************************************)
(* C5: translate(identity, (tx, ty, tz)), applied to the point             *)
(* (0, 0, 0, 1) as a column vector, yields (tx, ty, tz, 1).                *)
(***************************************************************************)
C5_TranslateMovesOrigin ==
    (op = "translate" /\ a = Mat4_one) =>
        ApplyToPoint(res, Vec4_new(0, 0, 0, 1)) = Vec4_new(t.x, t.y, t.z, 1)

C7_Transpose ==
    op = "transpose" =>
        /\ \A i \in 0..3 :
              Col(res, i) = Vec4_new(Comp(i, a.c0), Comp(i, a.c1),
                                     Comp(i, a.c2), Comp(i, a.c3))
        /\ Mat4_transpose(res) = a

C7_Witness ==
    /\ op = "transpose"
    /\ res # a
    /\ Mat4_transpose(res) = a

(***************************************************************************)
(* C8: M[i] is column i for i in 0..3, and for any other index the call    *)
(* panics and returns no column.                                           *)
(***************************************************************************)
C8_Index ==
    op = "index" =>
        /\ s \in 0..3 => res = Col(a, s)
        /\ s \notin 0..3 => res = Panic /\ res \notin {a.c0, a.c1, a.c2, a.c3}

C8_Witness ==
    /\ op = "index"
    /\ s = 4
    /\ a # Mat4_one
    /\ res = Panic

(***************************************************************************)
(* C9: distance(v1, v2) is the magnitude of v2 - v1: its square is the sum *)
(* over all components of the type of (v2.c - v1.c)^2.                     *)
(***************************************************************************)
C9_Distance ==
    op = "distance" => res = sqrt(SquaredDifference(u, v))

(***************************************************************************)
(* C10: matrix multiplication is associative, (A * B) * C = A * (B * C).   *)
(***************************************************************************)
C10_MulAssociative ==
    op = "mul_left_first" => res = Mat4_mul(a, Mat4_mul(b, c))

C10_Witness ==
    /\ op = "mul_left_first"
    /\ Mat4_mul(a, b) # Mat4_mul(b, a)
    /\ Mat4_mul(b, c) # Mat4_mul(c, b)
    /\ Mat4_one \notin {a, b, c}
    /\ res = Mat4_mul(a, Mat4_mul(b, c))

====
